---------------------------- MODULE Spec2Model ----------------------------
(***************************************************************************)
(* A state-machine model of ZTransfer: the auth service (invites, users,   *)
(* sessions), the upload service with its expiry sweep, and the CSRF       *)
(* double-submit token check.                                              *)
(*                                                                         *)
(* Conventions                                                             *)
(*   - Optional[T]: None is <<>>, a present value x is <<x>>.              *)
(*   - str: a sequence of one-character strings; bytes: a sequence of      *)
(*     small naturals.                                                     *)
(*   - a raw random token (token_urlsafe) is <<n>> with n >= 1, drawn      *)
(*     fresh from the counter `fresh`; digests prepend the tag 0.          *)
(*   - datetimes are naturals, the clock is `now`.                         *)
(***************************************************************************)
EXTENDS Integers, Sequences, FiniteSets, TLC

VARIABLES
    users,      \* table user:    sequence of rows, id = index
    invites,    \* table invite:  sequence of rows, id = index
    sessions,   \* table session: sequence of rows, id = index
    uploads,    \* table upload:  set of rows
    files,      \* filesystem: absolute path -> content, regular files
    dirs,       \* filesystem: the per-upload directories that exist
    up,         \* the store_upload call in flight: its locals and position
    settings,   \* app.config.settings, fixed at start-up
    now,        \* the clock
    fresh,      \* how many random values (tokens, uuids) were drawn so far
    txns,       \* per worker process: its request in flight, stepwise
    sweep,      \* the delete_expired_uploads call in flight, stepwise
    result      \* what the last step was called with and what it returned

vars == <<users, invites, sessions, uploads, files, dirs, up, settings,
          now, fresh, txns, sweep, result>>

authVars == <<users, invites, sessions>>
fileVars == <<uploads, files, dirs, up>>
flightVars == <<txns, sweep>>

----------------------------------------------------------------------------
(* Bounds of the model                                                     *)

MaxTime == 2
MaxInvites == 2
MaxSessions == 1
MaxUploads == 2
MaxLen == 3
MaxChunk == 2
MaxLimit == 2

(* Configured lifetimes, in clock ticks (settings.invite_ttl_hours,        *)
(* settings.session_cookie_max_age, settings.retention_days are read from  *)
(* the environment; the model runs them at a scale the clock can pass).    *)
InviteTtl == 1
SessionTtl == 2
RetentionTtl == 1
MonthLen == 2
MaxRows == 3
MaxLogins == 2

----------------------------------------------------------------------------
(* Optional values                                                         *)

None == <<>>
Some(x) == <<x>>

\* The set a sequence holds.
Range(s) == {s[i] : i \in DOMAIN s}

----------------------------------------------------------------------------
(* Strings                                                                 *)

Lower(c) == IF c = "A" THEN "a" ELSE IF c = "B" THEN "b" ELSE c

RECURSIVE LStrip(_)
LStrip(s) == IF s # <<>> /\ Head(s) = " " THEN LStrip(Tail(s)) ELSE s

RECURSIVE RStrip(_)
RStrip(s) ==
    IF s # <<>> /\ s[Len(s)] = " " THEN RStrip(SubSeq(s, 1, Len(s) - 1)) ELSE s

Strip(s) == RStrip(LStrip(s))

\* email.strip().lower()
NormalizeEmail(email) ==
    LET t == Strip(email) IN [i \in DOMAIN t |-> Lower(t[i])]

----------------------------------------------------------------------------
(* Tokens and password hashes                                              *)

\* hashlib.sha256(data).hexdigest(): one-way and collision free; the digest
\* of x is x behind the tag 0, which no raw token starts with.
Sha256Hex(data) == <<0>> \o data

\* HashToken returning the token itself in place of its digest.
HashToken_StoresRaw(raw_token) == raw_token

\* _hash_token (auth/service.py and files/service.py define the same one)
HashToken(raw_token) == Sha256Hex(raw_token)

IsDigest(x) == x # <<>> /\ Head(x) = 0
IsRawToken(x) == Len(x) = 1 /\ x[1] >= 1

\* Argon2: the hash is not the password, verification recomputes it.
HashPassword(password) == <<"argon2">> \o password
VerifyPassword(password, hashed) == hashed = HashPassword(password)

----------------------------------------------------------------------------
(* Inputs                                                                  *)

EmailInputs == { <<"a">>, <<" ", "A">>, <<"b">> }
PasswordInputs == { <<"p">>, <<"q">> }
NewPasswordInputs == { <<"p">> }
RoleInputs == { "member" }
\* Every token issued so far and one that was never issued.
TokenInputs == { <<n>> : n \in 1..(fresh + 1) }

NoError == [kind |-> "", msg |-> ""]
Err(kind, msg) == [kind |-> kind, msg |-> msg]

\* The record a step leaves in `result`.
Outcome(op, args, error, value) ==
    [op |-> op, args |-> args, error |-> error, value |-> value]

Returned(op, args, value) == Outcome(op, args, NoError, value)
Raised(op, args, error) == Outcome(op, args, error, None)

----------------------------------------------------------------------------
(* Auth service                                                            *)

\* select(Invite).where(Invite.token == token_hash); token is unique.
InviteIdsByToken(token_hash) ==
    {i \in DOMAIN invites : invites[i].token = token_hash}

\* select(User).where(User.email == normalized_email); email is unique.
UserIdsByEmail(normalized_email) ==
    {u \in DOMAIN users : users[u].email = normalized_email}

\* select(Session).where(Session.token_hash == token_hash); unique.
SessionIdsByHash(token_hash) ==
    {s \in DOMAIN sessions : sessions[s].token_hash = token_hash}

\* The Invite row create_invite builds: it holds the digest of the token.
NewInvite(id, email, role, raw_token, t) ==
    [id |-> id,
     token |-> HashToken(raw_token),
     email |-> NormalizeEmail(email),
     role |-> role,
     expires_at |-> t + InviteTtl,
     used_at |-> None,
     created_at |-> t,
     created_by |-> None]

\* create_invite: the raw token goes to the caller, with the row.
CreateInvite(email, role) ==
    /\ Len(invites) < MaxInvites
    /\ LET raw_token == <<fresh + 1>>
           invite == NewInvite(Len(invites) + 1, email, role, raw_token, now)
       IN /\ invites' = Append(invites, invite)
          /\ result' = Returned("create_invite", <<email, role>>,
                                [invite |-> invite, raw_token |-> raw_token])
    /\ fresh' = fresh + 1
    /\ UNCHANGED <<users, sessions, fileVars, settings, flightVars, now>>

\* ConsumeInviteError without the used_at test.
ConsumeInviteError_NoUsedCheck(token_hash, normalized_email, t) ==
    LET found == InviteIdsByToken(token_hash) IN
    IF found = {} THEN Err("InvalidInvite", "Invite not found")
    ELSE LET invite == invites[CHOOSE i \in found : TRUE] IN
         IF invite.expires_at < t
         THEN Err("InvalidInvite", "Invite expired")
         ELSE IF NormalizeEmail(invite.email) # normalized_email
         THEN Err("InvalidInvite", "Invite email mismatch")
         ELSE IF UserIdsByEmail(normalized_email) # {}
         THEN Err("InviteAlreadyUsed", "User already exists for invite email")
         ELSE NoError

\* ConsumeInviteError without the expires_at test.
ConsumeInviteError_NoExpiryCheck(token_hash, normalized_email, t) ==
    LET found == InviteIdsByToken(token_hash) IN
    IF found = {} THEN Err("InvalidInvite", "Invite not found")
    ELSE LET invite == invites[CHOOSE i \in found : TRUE] IN
         IF invite.used_at # None
         THEN Err("InviteAlreadyUsed", "Invite already used")
         ELSE IF NormalizeEmail(invite.email) # normalized_email
         THEN Err("InvalidInvite", "Invite email mismatch")
         ELSE IF UserIdsByEmail(normalized_email) # {}
         THEN Err("InviteAlreadyUsed", "User already exists for invite email")
         ELSE NoError

\* The checks of consume_invite, in the order the code makes them: the error
\* it raises, or NoError when the invite can be consumed.
ConsumeInviteError(token_hash, normalized_email, t) ==
    LET found == InviteIdsByToken(token_hash) IN
    IF found = {} THEN Err("InvalidInvite", "Invite not found")
    ELSE LET invite == invites[CHOOSE i \in found : TRUE] IN
         IF invite.used_at # None
         THEN Err("InviteAlreadyUsed", "Invite already used")
         ELSE IF invite.expires_at < t
         THEN Err("InvalidInvite", "Invite expired")
         ELSE IF NormalizeEmail(invite.email) # normalized_email
         THEN Err("InvalidInvite", "Invite email mismatch")
         ELSE IF UserIdsByEmail(normalized_email) # {}
         THEN Err("InviteAlreadyUsed", "User already exists for invite email")
         ELSE NoError

\* The User row consume_invite builds.
NewUser(id, normalized_email, password, role, t) ==
    [id |-> id,
     email |-> normalized_email,
     password_hash |-> HashPassword(password),
     role |-> role,
     created_at |-> t,
     last_login_at |-> None,
     is_active |-> TRUE]

\* consume_invite: one transaction; a raise rolls back (nothing was written).
ConsumeInvite(token, email, password) ==
    LET token_hash == HashToken(token)
        normalized_email == NormalizeEmail(email)
        error == ConsumeInviteError(token_hash, normalized_email, now)
        args == <<token, email, password>>
    IN
    /\ IF error # NoError
       THEN /\ result' = Raised("consume_invite", args, error)
            /\ UNCHANGED <<users, invites>>
       ELSE LET i == CHOOSE i \in InviteIdsByToken(token_hash) : TRUE
                user == NewUser(Len(users) + 1, normalized_email, password,
                                invites[i].role, now)
            IN /\ users' = Append(users, user)
               /\ invites' = [invites EXCEPT ![i].used_at = Some(now)]
               /\ result' = Returned("consume_invite", args, user)
    /\ UNCHANGED <<sessions, fileVars, settings, flightVars, now, fresh>>

\* AuthenticateError with a message of its own for a wrong password.
AuthenticateError_Leaky(normalized_email, password) ==
    LET found == UserIdsByEmail(normalized_email) IN
    IF found = {} THEN Err("InvalidCredentials", "Unknown user")
    ELSE LET user == users[CHOOSE u \in found : TRUE] IN
         IF ~user.is_active
         THEN Err("InvalidCredentials", "Invalid credentials")
         ELSE IF ~VerifyPassword(password, user.password_hash)
         THEN Err("InvalidCredentials", "Invalid credentials")
         ELSE NoError

\* AuthenticateError without the is_active test.
AuthenticateError_NoActiveCheck(normalized_email, password) ==
    LET found == UserIdsByEmail(normalized_email) IN
    IF found = {} THEN Err("InvalidCredentials", "Invalid credentials")
    ELSE LET user == users[CHOOSE u \in found : TRUE] IN
         IF ~VerifyPassword(password, user.password_hash)
         THEN Err("InvalidCredentials", "Invalid credentials")
         ELSE NoError

\* The error authenticate_user raises, or NoError.
AuthenticateError(normalized_email, password) ==
    LET found == UserIdsByEmail(normalized_email) IN
    IF found = {} THEN Err("InvalidCredentials", "Invalid credentials")
    ELSE LET user == users[CHOOSE u \in found : TRUE] IN
         IF ~user.is_active
         THEN Err("InvalidCredentials", "Invalid credentials")
         ELSE IF ~VerifyPassword(password, user.password_hash)
         THEN Err("InvalidCredentials", "Invalid credentials")
         ELSE NoError

\* UsersAfterFailedLogin with last_login_at assigned and flushed before the
\* credentials are tested.
UsersAfterFailedLogin_StampsFirst(normalized_email) ==
    [u \in DOMAIN users |->
        IF users[u].email = normalized_email
        THEN [users[u] EXCEPT !.last_login_at = Some(now)]
        ELSE users[u]]

\* The user table after authenticate_user raised: both raises precede the
\* assignment of last_login_at, so the scope rolls back a transaction that
\* wrote nothing.
UsersAfterFailedLogin(normalized_email) == users

\* authenticate_user.  On success the code assigns last_login_at and then
\* calls session.refresh(user) before anything was flushed: the ORM either
\* reloads the row over the pending assignment or flushes it first, so the
\* committed last_login_at is the new time or the old value.
AuthenticateUser(email, password) ==
    LET normalized_email == NormalizeEmail(email)
        error == AuthenticateError(normalized_email, password)
        args == <<email, password>>
    IN
    /\ IF error # NoError
       THEN /\ result' = Raised("authenticate_user", args, error)
            /\ users' = UsersAfterFailedLogin(normalized_email)
       ELSE LET u == CHOOSE u \in UserIdsByEmail(normalized_email) : TRUE IN
            /\ \/ users' = [users EXCEPT ![u].last_login_at = Some(now)]
               \/ UNCHANGED users
            /\ result' = Returned("authenticate_user", args, users'[u])
    /\ UNCHANGED <<invites, sessions, fileVars, settings, flightVars, now, fresh>>

\* The Session row create_session builds: it holds the digest of the token.
NewSession(id, user_id, raw_token, t) ==
    [id |-> id,
     token_hash |-> HashToken(raw_token),
     user_id |-> user_id,
     created_at |-> t,
     expires_at |-> t + SessionTtl,
     last_seen_at |-> t,
     revoked_at |-> None,
     ip_address |-> None,
     user_agent |-> None]

\* create_session, called by login_submit with the id of the user that
\* authenticate_user returned.
CreateSession(user_id) ==
    /\ Len(sessions) < MaxSessions
    /\ user_id \in DOMAIN users
    /\ LET raw_token == <<fresh + 1>>
           session_model == NewSession(Len(sessions) + 1, user_id,
                                       raw_token, now)
       IN /\ sessions' = Append(sessions, session_model)
          /\ result' = Returned("create_session", <<user_id>>, raw_token)
    /\ fresh' = fresh + 1
    /\ UNCHANGED <<users, invites, fileVars, settings, flightVars, now>>

\* The session table after revoke_session(raw_token) at time t: the row with
\* the hash of the token, if there is one, gets revoked_at = t.
SessionsAfterRevoke(raw_token, t) ==
    LET found == SessionIdsByHash(HashToken(raw_token)) IN
    IF found = {} THEN sessions
    ELSE [sessions EXCEPT ![CHOOSE s \in found : TRUE].revoked_at = Some(t)]

\* revoke_session
RevokeSession(raw_token) ==
    /\ sessions' = SessionsAfterRevoke(raw_token, now)
    /\ result' = Returned("revoke_session", <<raw_token>>, None)
    /\ UNCHANGED <<users, invites, fileVars, settings, flightVars, now, fresh>>

\* ValidSessionIds without the revoked_at test.
ValidSessionIds_NoRevokedFilter(token_hash, t) ==
    {s \in SessionIdsByHash(token_hash) :
        /\ sessions[s].expires_at > t
        /\ sessions[s].user_id \in DOMAIN users}

\* ValidSessionIds without the expires_at test.
ValidSessionIds_NoExpiryFilter(token_hash, t) ==
    {s \in SessionIdsByHash(token_hash) :
        /\ sessions[s].revoked_at = None
        /\ sessions[s].user_id \in DOMAIN users}

\* ValidSessionIds with expires_at >= t.
ValidSessionIds_ExpiryInclusive(token_hash, t) ==
    {s \in SessionIdsByHash(token_hash) :
        /\ sessions[s].revoked_at = None
        /\ sessions[s].expires_at >= t
        /\ sessions[s].user_id \in DOMAIN users}

\* The rows the query of resolve_user_from_session selects: the session with
\* this hash, not revoked, expiring later than t, joined with its user.
ValidSessionIds(token_hash, t) ==
    {s \in SessionIdsByHash(token_hash) :
        /\ sessions[s].revoked_at = None
        /\ sessions[s].expires_at > t
        /\ sessions[s].user_id \in DOMAIN users}

\* SessionsAfterResolve with a sliding expiry: every use renews expires_at.
SessionsAfterResolve_Sliding(s, t) ==
    [sessions EXCEPT ![s].last_seen_at = t, ![s].expires_at = t + SessionTtl]

\* The session table after resolve_user_from_session found row s at time t:
\* last_seen_at is the only column it assigns.
SessionsAfterResolve(s, t) == [sessions EXCEPT ![s].last_seen_at = t]

\* resolve_user_from_session
ResolveUserFromSession(raw_token) ==
    LET rows == ValidSessionIds(HashToken(raw_token), now) IN
    /\ IF rows = {}
       THEN /\ UNCHANGED sessions
            /\ result' = Returned("resolve_user_from_session",
                                  <<raw_token>>, None)
       ELSE LET s == CHOOSE s \in rows : TRUE IN
            /\ sessions' = SessionsAfterResolve(s, now)
            /\ result' = Returned("resolve_user_from_session", <<raw_token>>,
                                  Some(users[sessions[s].user_id]))
    /\ UNCHANGED <<users, invites, fileVars, settings, flightVars, now, fresh>>

\* users_exist
UsersExist ==
    /\ result' = Returned("users_exist", <<>>, users # <<>>)
    /\ UNCHANGED <<authVars, fileVars, settings, flightVars, now, fresh>>

\* User.is_active is a column no service function writes; an account is
\* deactivated by writing the row directly.
DeactivateUser(user_id) ==
    /\ user_id \in DOMAIN users
    /\ users[user_id].is_active
    /\ users' = [users EXCEPT ![user_id].is_active = FALSE]
    /\ result' = Returned("deactivate_user", <<user_id>>, None)
    /\ UNCHANGED <<invites, sessions, fileVars, settings, flightVars, now, fresh>>

\* The clock advances.
Tick ==
    /\ now < MaxTime
    /\ now' = now + 1
    /\ result' = Returned("tick", <<>>, None)
    /\ UNCHANGED <<authVars, fileVars, settings, flightVars, fresh>>

----------------------------------------------------------------------------
(* Storage paths                                                           *)

\* A path is a sequence of segments, a segment a str.  The process runs in
\* Cwd; a relative path handed to the filesystem is resolved against it.
Cwd == << <<"cwd">> >>

Parent(path) == SubSeq(path, 1, Len(path) - 1)
IsPrefix(p, q) == Len(p) <= Len(q) /\ SubSeq(q, 1, Len(p)) = p

\* Path.relative_to(base), for a path under base
RelativeTo(path, base) == SubSeq(path, Len(base) + 1, Len(path))

SafeChars == {"a", "b", "A", "B", ".", "_", "-"}

RECURSIVE KeepSafe(_)
KeepSafe(s) ==
    IF s = <<>> THEN <<>>
    ELSE IF Head(s) \in SafeChars THEN <<Head(s)>> \o KeepSafe(Tail(s))
    ELSE KeepSafe(Tail(s))

DefaultName == <<"f", "i", "l", "e">>

\* sanitize_filename
SanitizeFilename(original_name) ==
    IF original_name = <<>> THEN DefaultName
    ELSE LET stripped == Strip(original_name)
             underscored == [i \in DOMAIN stripped |->
                                IF stripped[i] = " " THEN "_" ELSE stripped[i]]
             sanitized == KeepSafe(underscored)
         IN IF sanitized = <<>> THEN DefaultName ELSE sanitized

\* created_at.strftime("%Y-%m"): the calendar month a time falls in.
DateSegment(t) == <<ToString(t \div MonthLen)>>

\* allocate_upload_path: STORAGE_ROOT / owner / month / uuid4().hex / name
AllocateUploadPath(owner_id, original_name, created_at, unique) ==
    settings.storage_dir \o
        << <<ToString(owner_id)>>, DateSegment(created_at),
           <<ToString(unique)>>, SanitizeFilename(original_name) >>

----------------------------------------------------------------------------
(* Upload service                                                          *)

\* No store_upload call in flight, after `started` calls that got a path.
Idle(started) == [pc |-> "idle", started |-> started]

\* file \ {path}: Path.unlink(missing_ok=True)
Unlink(fs, paths) == [p \in DOMAIN fs \ paths |-> fs[p]]

\* open(path, "wb") and write: the file at path with this content.
WriteFile(fs, path, content) ==
    [p \in DOMAIN fs \cup {path} |-> IF p = path THEN content ELSE fs[p]]

\* store_upload from the path to the opened destination, for a user with an
\* id: the directory is made, the destination opened for writing.
BeginStreaming(user_id, filename, stream) ==
    LET name == IF filename = <<>> THEN DefaultName ELSE filename
        destination_path == AllocateUploadPath(user_id, name, now, fresh + 1)
    IN /\ dirs' = dirs \cup {Parent(destination_path)}
       /\ files' = WriteFile(files, destination_path, <<>>)
       /\ up' = [pc |-> "streaming",
                 started |-> up.started + 1,
                 user_id |-> user_id,
                 filename |-> filename,
                 stream |-> stream,
                 pos |-> 0,
                 now |-> now,
                 destination_path |-> destination_path,
                 hasher |-> <<>>,
                 total_bytes |-> 0]
       /\ fresh' = fresh + 1

\* store_upload up to the streaming loop: the id check, the path, the
\* directory, the destination opened for writing.
UploadBegin(user_id, filename, stream) ==
    /\ up.pc = "idle"
    /\ up.started < MaxUploads
    /\ IF user_id = None
       THEN /\ result' = Raised("store_upload", <<user_id, filename, stream>>,
                                Err("MissingUserIdError",
                                    "User must have a persisted ID before uploading"))
            /\ UNCHANGED <<files, dirs, up, fresh>>
       ELSE /\ BeginStreaming(user_id[1], filename, stream)
            /\ result' = Returned("store_upload_begin",
                                  <<user_id, filename, stream>>, None)
    /\ UNCHANGED <<authVars, uploads, settings, flightVars, now>>

UploadArgs == <<Some(up.user_id), up.filename, up.stream>>

\* TooLarge with >= for >.
TooLarge_OffByOne(total_bytes) == total_bytes >= settings.max_size_bytes

\* TooLarge with the limit one byte higher.
TooLarge_LimitPlusOne(total_bytes) ==
    total_bytes > settings.max_size_bytes + 1

\* Whether the loop stops at a chunk that brings the total to total_bytes.
TooLarge(total_bytes) == total_bytes > settings.max_size_bytes

\* What the loop does with a chunk that fits: write it, feed the hasher.
Absorb(chunk) ==
    [up EXCEPT !.pos = @ + Len(chunk),
               !.total_bytes = @ + Len(chunk),
               !.hasher = @ \o chunk]

\* FilesAfterRefusal with the partial file left in place.
FilesAfterRefusal_KeepsPartial == files

\* The filesystem after the loop refused a chunk: the destination unlinked.
FilesAfterRefusal == Unlink(files, {up.destination_path})

\* One turn of the streaming loop: read at most chunk_size bytes (a read may
\* return fewer than asked), stop at end of input, refuse and unlink when the
\* total passes the limit, else write the chunk and feed the hasher.  A turn
\* that does not end the call is recorded as "store_upload_chunk".
UploadChunk ==
    /\ up.pc = "streaming"
    /\ LET remaining == Len(up.stream) - up.pos IN
       IF remaining = 0
       THEN /\ up' = [up EXCEPT !.pc = "persist"]
            /\ result' = Returned("store_upload_chunk", UploadArgs, None)
            /\ UNCHANGED files
       ELSE \E k \in 1..settings.chunk_size :
            /\ k <= remaining
            /\ LET chunk == SubSeq(up.stream, up.pos + 1, up.pos + k) IN
               IF TooLarge(up.total_bytes + Len(chunk))
               THEN /\ files' = FilesAfterRefusal
                    /\ up' = Idle(up.started)
                    /\ result' = Raised("store_upload", UploadArgs,
                                        Err("UploadTooLargeError",
                                            "Upload exceeds maximum allowed size"))
               ELSE /\ files' = WriteFile(files, up.destination_path,
                                          files[up.destination_path] \o chunk)
                    /\ up' = Absorb(chunk)
                    /\ result' = Returned("store_upload_chunk",
                                          UploadArgs, None)
    /\ UNCHANGED <<authVars, uploads, dirs, settings, flightVars, now, fresh>>

\* The ids of the rows of a table holding ids: the next one is the largest
\* plus one (INTEGER PRIMARY KEY).
NextId(rows) ==
    IF rows = {} THEN 1
    ELSE (CHOOSE m \in {r.id : r \in rows} : \A r \in rows : r.id <= m) + 1

\* store_upload after the loop: the tokens, the Upload row, its transaction.
UploadPersist ==
    /\ up.pc = "persist"
    /\ LET download_token == <<fresh + 1>>
           delete_token_raw == <<fresh + 2>>
           upload_record ==
               [id |-> NextId(uploads),
                owner_id |-> up.user_id,
                download_token |-> download_token,
                delete_token_hash |-> HashToken(delete_token_raw),
                path |-> RelativeTo(up.destination_path, settings.storage_dir),
                original_name |->
                    IF up.filename = <<>> THEN DefaultName ELSE up.filename,
                content_type |-> "application/octet-stream",
                size_bytes |-> up.total_bytes,
                created_at |-> up.now,
                expires_at |-> up.now + RetentionTtl,
                sha256 |-> Sha256Hex(up.hasher)]
       IN /\ uploads' = uploads \cup {upload_record}
          /\ result' = Returned("store_upload", UploadArgs,
                                [upload_record |-> upload_record,
                                 download_token |-> download_token,
                                 delete_token_raw |-> delete_token_raw])
    /\ fresh' = fresh + 2
    /\ up' = Idle(up.started)
    /\ UNCHANGED <<authVars, files, dirs, settings, flightVars, now>>

\* store_upload when upload_file.file.read or file_handle.write raises inside
\* the loop (an I/O error, a client that went away): the with block closes
\* the destination and the exception leaves store_upload.  Nothing on this
\* path unlinks the destination.
UploadStreamError ==
    /\ up.pc = "streaming"
    /\ up' = Idle(up.started)
    /\ result' = Raised("store_upload", UploadArgs,
                        Err("OSError", "streaming"))
    /\ UNCHANGED <<authVars, uploads, files, dirs, settings, flightVars, now,
                   fresh>>

\* store_upload when the flush or the commit of the Upload row fails (the
\* database is locked or gone): session_scope rolls back and re-raises.  The
\* file was written and closed before the scope was entered.
UploadPersistError ==
    /\ up.pc = "persist"
    /\ up' = Idle(up.started)
    /\ result' = Raised("store_upload", UploadArgs,
                        Err("OperationalError", "persist"))
    /\ UNCHANGED <<authVars, uploads, files, dirs, settings, flightVars, now,
                   fresh>>

----------------------------------------------------------------------------
(* Expiry sweep                                                            *)

\* ExpiredUploads with < for <=.
ExpiredUploads_Strict(timestamp) == {r \in uploads : r.expires_at < timestamp}

\* select(Upload).where(Upload.expires_at <= timestamp)
ExpiredUploads(timestamp) == {r \in uploads : r.expires_at <= timestamp}

\* The file _delete_upload_file unlinks for a row: Path(upload.path), the
\* stored relative path, which the filesystem resolves against Cwd.
SweepTarget(upload) == Cwd \o upload.path

\* SweptFiles with the files of all rows of the same owner and month unlinked.
SweptFiles_WholeMonth(rows) ==
    Unlink(files, {SweepTarget(v) : v \in
                      {v \in uploads : \E r \in rows :
                          SubSeq(v.path, 1, 2) = SubSeq(r.path, 1, 2)}})

\* The filesystem after _delete_upload_file ran for each of the rows: the
\* targets are unlinked, and the parent directory of each is removed when it
\* exists and is left empty (any OSError is swallowed).
SweptFiles(rows) == Unlink(files, {SweepTarget(r) : r \in rows})
SweptDirs(rows) ==
    dirs \ {d \in {Parent(SweepTarget(r)) : r \in rows} :
               ~\E p \in DOMAIN SweptFiles(rows) : Parent(p) = d}

\* delete_expired_uploads(now): one transaction over all expired rows.
DeleteExpiredUploads(given) ==
    LET timestamp == IF given = None THEN now ELSE given[1]
        expired == ExpiredUploads(timestamp)
    IN /\ files' = SweptFiles(expired)
       /\ dirs' = SweptDirs(expired)
       /\ uploads' = uploads \ expired
       /\ result' = Returned("delete_expired_uploads", <<given>>,
                             Cardinality(expired))
       /\ UNCHANGED <<authVars, up, settings, flightVars, now, fresh>>

----------------------------------------------------------------------------
(* CSRF tokens                                                             *)

\* One character outside ASCII; every other character of the model is ASCII.
NonAscii == "e-acute"
IsAscii(s) == \A i \in DOMAIN s : s[i] # NonAscii

\* The hexadecimal digits of one character of a digest's input.
HexOf(c) == IF c = "." THEN "2e" ELSE IF c = NonAscii THEN "c3a9" ELSE c

\* hmac.new(secret, message, sha256).hexdigest(): a string of hex digits
\* that tells secret and message apart.
Hmac(secret, message) ==
    <<"hmac">> \o [i \in DOMAIN secret |-> HexOf(secret[i])]
               \o <<"00">> \o [i \in DOMAIN message |-> HexOf(message[i])]

\* _sign_nonce: the HMAC of the nonce under settings.session_secret.
SignNonce(nonce) == Hmac(settings.session_secret, nonce)

\* f"{nonce}.{signature}"
CsrfToken(nonce, signature) == nonce \o <<".">> \o signature

\* hmac.compare_digest on two str: TypeError when either holds a character
\* outside ASCII, else whether they are equal.
CompareDigestRaises(a, b) == ~IsAscii(a) \/ ~IsAscii(b)

\* str.split(".", 1): the positions of the separator, and the two parts
\* around the first one.
DotAt(s) == {i \in DOMAIN s : s[i] = "."}
FirstDot(s) == CHOOSE i \in DotAt(s) : \A j \in DotAt(s) : i <= j
BeforeDot(s) == SubSeq(s, 1, FirstDot(s) - 1)
AfterDot(s) == SubSeq(s, FirstDot(s) + 1, Len(s))

CsrfTypeError ==
    Err("TypeError", "comparing strings with non-ASCII characters is not supported")

\* ValidateCsrfOutcome with tokens that stop validating once a login
\* created a session.
ValidateCsrfOutcome_SingleUse(submitted, cookie_value) ==
    IF \/ submitted = None \/ cookie_value = None
       \/ submitted = Some(<<>>) \/ cookie_value = Some(<<>>)
    THEN [error |-> NoError, value |-> FALSE]
    ELSE IF CompareDigestRaises(submitted[1], cookie_value[1])
    THEN [error |-> CsrfTypeError, value |-> None]
    ELSE IF submitted[1] # cookie_value[1]
    THEN [error |-> NoError, value |-> FALSE]
    ELSE IF DotAt(submitted[1]) = {}
    THEN [error |-> NoError, value |-> FALSE]
    ELSE LET signature == AfterDot(submitted[1])
             expected == SignNonce(BeforeDot(submitted[1]))
         IN IF CompareDigestRaises(signature, expected)
            THEN [error |-> CsrfTypeError, value |-> None]
            ELSE [error |-> NoError,
                  value |-> signature = expected /\ sessions = <<>>]

\* What validate_csrf_token does with its arguments, check by check: the
\* error it raises and the value it returns.
ValidateCsrfOutcome(submitted, cookie_value) ==
    IF \/ submitted = None \/ cookie_value = None
       \/ submitted = Some(<<>>) \/ cookie_value = Some(<<>>)
    THEN [error |-> NoError, value |-> FALSE]
    ELSE IF CompareDigestRaises(submitted[1], cookie_value[1])
    THEN [error |-> CsrfTypeError, value |-> None]
    ELSE IF submitted[1] # cookie_value[1]
    THEN [error |-> NoError, value |-> FALSE]
    ELSE IF DotAt(submitted[1]) = {}
    THEN [error |-> NoError, value |-> FALSE]
    ELSE LET signature == AfterDot(submitted[1])
             expected == SignNonce(BeforeDot(submitted[1]))
         IN IF CompareDigestRaises(signature, expected)
            THEN [error |-> CsrfTypeError, value |-> None]
            ELSE [error |-> NoError, value |-> signature = expected]

\* validate_csrf_token
ValidateCsrfToken(submitted, cookie_value) ==
    /\ LET outcome == ValidateCsrfOutcome(submitted, cookie_value) IN
       result' = Outcome("validate_csrf_token", <<submitted, cookie_value>>,
                         outcome.error, outcome.value)
    /\ UNCHANGED <<authVars, fileVars, settings, flightVars, now, fresh>>

\* issue_csrf_token: a random nonce and its signature.
IssueCsrfToken(nonce) ==
    /\ result' = Returned("issue_csrf_token", <<>>,
                          CsrfToken(nonce, SignNonce(nonce)))
    /\ UNCHANGED <<authVars, fileVars, settings, flightVars, now, fresh>>

----------------------------------------------------------------------------
(* consume_invite, statement by statement, in concurrent worker processes  *)

\* The worker processes that serve requests on the one SQLite database.
Workers == {1, 2}

\* No consume_invite call in flight in a worker.
TxnIdle == [pc |-> "idle"]

\* SQLite lets one connection write at a time: a worker that has flushed its
\* INSERT holds the write lock until its transaction ends.
WriteLockHeld(w) == \E v \in Workers \ {w} : txns[v].pc = "flushed"

\* The unique index of User.email, checked by the INSERT.
EmailTaken_NoConstraint(normalized_email) == FALSE

EmailTaken(normalized_email) == UserIdsByEmail(normalized_email) # {}

\* What an INSERT of a user raises at session.flush(), or NoError.
FlushError(w) ==
    IF WriteLockHeld(w)
    THEN Err("OperationalError", "database is locked")
    ELSE IF EmailTaken(txns[w].normalized_email)
    THEN Err("IntegrityError", "UNIQUE constraint failed: user.email")
    ELSE NoError

\* session_scope on an exception, and SQLite on the death of the process:
\* the transaction is rolled back, the users table keeps its committed rows.
\* UsersAfterRollback keeping the flushed row.
UsersAfterRollback_KeepsFlushed(w) ==
    IF txns[w].pc = "flushed" THEN Append(users, txns[w].user) ELSE users

UsersAfterRollback(w) == users

\* consume_invite up to the INSERT: the two SELECTs and the checks.  Both
\* SELECTs read committed rows, before any write of this call.
ConsumeSelect(w, token, email, password) ==
    /\ txns[w].pc = "idle"
    /\ LET args == <<token, email, password>>
           token_hash == HashToken(token)
           normalized_email == NormalizeEmail(email)
           error == ConsumeInviteError(token_hash, normalized_email, now)
       IN IF error # NoError
          THEN /\ result' = Raised("consume_invite", args, error)
               /\ UNCHANGED txns
          ELSE /\ txns' = [txns EXCEPT ![w] =
                              [pc |-> "checked",
                               args |-> args,
                               now |-> now,
                               normalized_email |-> normalized_email,
                               invite |-> CHOOSE i \in
                                   InviteIdsByToken(token_hash) : TRUE]]
               /\ result' = Returned("consume_invite_select", args, None)
    /\ UNCHANGED <<authVars, fileVars, settings, sweep, now, fresh>>

\* session.add(user); session.flush(): the INSERT, under the write lock and
\* the unique index.  An error leaves the scope, which rolls back.
ConsumeFlush(w) ==
    /\ txns[w].pc = "checked"
    /\ LET error == FlushError(w) IN
       IF error # NoError
       THEN /\ result' = Raised("consume_invite", txns[w].args, error)
            /\ txns' = [txns EXCEPT ![w] = TxnIdle]
       ELSE /\ txns' = [txns EXCEPT ![w] =
                           [pc |-> "flushed",
                            args |-> txns[w].args,
                            now |-> txns[w].now,
                            normalized_email |-> txns[w].normalized_email,
                            invite |-> txns[w].invite,
                            user |-> NewUser(Len(users) + 1,
                                             txns[w].normalized_email,
                                             txns[w].args[3],
                                             invites[txns[w].invite].role,
                                             txns[w].now)]]
            /\ result' = Returned("consume_invite_flush", txns[w].args, None)
    /\ UNCHANGED <<authVars, fileVars, settings, sweep, now, fresh>>

\* invite.used_at = now; session.add(invite); the scope commits: the user row
\* and the invite update become visible together.
ConsumeCommit(w) ==
    /\ txns[w].pc = "flushed"
    /\ users' = Append(users, txns[w].user)
    /\ invites' = [invites EXCEPT ![txns[w].invite].used_at =
                                      Some(txns[w].now)]
    /\ txns' = [txns EXCEPT ![w] = TxnIdle]
    /\ result' = Returned("consume_invite", txns[w].args, txns[w].user)
    /\ UNCHANGED <<sessions, fileVars, settings, sweep, now, fresh>>

\* The worker dies in the middle of a call: nothing of it was committed.
\* The outcome records where the call stood.
ConsumeCrash(w) ==
    /\ txns[w].pc # "idle"
    /\ users' = UsersAfterRollback(w)
    /\ txns' = [txns EXCEPT ![w] = TxnIdle]
    /\ result' = Raised("consume_invite", txns[w].args,
                        Err("ProcessKilled", txns[w].pc))
    /\ UNCHANGED <<invites, sessions, fileVars, settings, sweep, now, fresh>>

\* accept_invite: the status of the response for an outcome of
\* consume_invite; an exception it does not catch is a 500.
AcceptInviteStatus(error) ==
    IF error = NoError THEN 201
    ELSE IF error.kind = "InviteAlreadyUsed" THEN 409
    ELSE IF error.kind = "InvalidInvite" THEN 400
    ELSE 500

----------------------------------------------------------------------------
(* delete_expired_uploads, statement by statement                          *)

\* No sweep in flight.
SweepIdle == [pc |-> "idle"]

\* The SELECT of the expired rows, inside the transaction of the sweep.
SweepBegin(given) ==
    /\ sweep.pc = "idle"
    /\ LET timestamp == IF given = None THEN now ELSE given[1] IN
       sweep' = [pc |-> "deleting",
                 given |-> given,
                 timestamp |-> timestamp,
                 todo |-> ExpiredUploads(timestamp),
                 done |-> {}]
    /\ result' = Returned("delete_expired_uploads_select", <<given>>, None)
    /\ UNCHANGED <<authVars, fileVars, settings, txns, now, fresh>>

\* One turn of the loop: _delete_upload_file for a row, session.delete of
\* the row (pending until the commit), removed += 1.
SweepDeleteFile ==
    /\ sweep.pc = "deleting"
    /\ \E upload \in sweep.todo :
        /\ files' = SweptFiles({upload})
        /\ dirs' = SweptDirs({upload})
        /\ sweep' = [sweep EXCEPT !.todo = @ \ {upload},
                                  !.done = @ \cup {upload}]
    /\ result' = Returned("delete_expired_uploads_file", <<sweep.given>>, None)
    /\ UNCHANGED <<authVars, uploads, up, settings, txns, now, fresh>>

\* The end of the scope: the DELETEs are flushed and committed.
SweepCommit ==
    /\ sweep.pc = "deleting"
    /\ sweep.todo = {}
    /\ uploads' = uploads \ sweep.done
    /\ sweep' = SweepIdle
    /\ result' = Returned("delete_expired_uploads", <<sweep.given>>,
                          Cardinality(sweep.done))
    /\ UNCHANGED <<authVars, files, dirs, up, settings, txns, now, fresh>>

\* The sweep is interrupted before its commit (the process dies, or the
\* commit fails): the transaction is rolled back, every row stays, and what
\* was done to the filesystem stays done.
SweepCrash ==
    /\ sweep.pc = "deleting"
    /\ sweep' = SweepIdle
    /\ result' = Raised("delete_expired_uploads", <<sweep.given>>,
                        Err("ProcessKilled", "deleting"))
    /\ UNCHANGED <<authVars, fileVars, settings, txns, now, fresh>>

----------------------------------------------------------------------------
(* HTTP routes of the auth router                                          *)

\* raise HTTPException(status_code, detail)
HttpException(status_code, detail) ==
    [kind |-> "HTTPException", msg |-> detail, status_code |-> status_code]

\* if value: a cookie or setting that is present and not empty.
Truthy(value) == value # None /\ value # Some(<<>>)

\* POST /auth/login: the CSRF pair is validated first; only then are the
\* credentials checked and a session opened.  An exception of
\* validate_csrf_token is caught by nothing.
LoginSubmit(email, password, csrf_token, csrf_cookie) ==
    LET args == <<email, password, csrf_token, csrf_cookie>>
        csrf == ValidateCsrfOutcome(Some(csrf_token), csrf_cookie)
        normalized_email == NormalizeEmail(email)
        error == AuthenticateError(normalized_email, password)
    IN
    /\ IF csrf.error # NoError
       THEN /\ result' = Raised("login_submit", args, csrf.error)
            /\ UNCHANGED <<users, sessions, fresh>>
       ELSE IF ~csrf.value
       THEN /\ result' = Raised("login_submit", args,
                                HttpException(400, "Invalid CSRF token"))
            /\ UNCHANGED <<users, sessions, fresh>>
       ELSE IF error # NoError
       THEN /\ result' = Raised("login_submit", args,
                                HttpException(401, "Invalid credentials"))
            /\ UNCHANGED <<users, sessions, fresh>>
       ELSE LET u == CHOOSE u \in UserIdsByEmail(normalized_email) : TRUE
                session_token == <<fresh + 1>>
            IN /\ Len(sessions) < MaxLogins
               /\ \/ users' = [users EXCEPT ![u].last_login_at = Some(now)]
                  \/ UNCHANGED users
               /\ sessions' = Append(sessions,
                                     NewSession(Len(sessions) + 1, u,
                                                session_token, now))
               /\ fresh' = fresh + 1
               /\ result' = Returned("login_submit", args,
                                     [status_code |-> 303,
                                      session_token |-> session_token])
    /\ UNCHANGED <<invites, fileVars, settings, flightVars, now>>

\* POST /auth/logout: revoke the session of the cookie, if there is one.
Logout(session_token) ==
    /\ sessions' = IF Truthy(session_token)
                   THEN SessionsAfterRevoke(session_token[1], now)
                   ELSE sessions
    /\ result' = Returned("logout", <<session_token>>, [status_code |-> 200])
    /\ UNCHANGED <<users, invites, fileVars, settings, flightVars, now,
                   fresh>>

\* BootstrapError without the users_exist test.
BootstrapError_NoUsersGate(admin_token) ==
    IF ~Truthy(settings.admin_bootstrap_token)
    THEN HttpException(400, "Bootstrap token not configured")
    ELSE IF admin_token # settings.admin_bootstrap_token[1]
    THEN HttpException(403, "Invalid bootstrap token")
    ELSE NoError

\* BootstrapError without the comparison of the two tokens.
BootstrapError_TokenUnchecked(admin_token) ==
    IF ~Truthy(settings.admin_bootstrap_token)
    THEN HttpException(400, "Bootstrap token not configured")
    ELSE IF users # <<>>
    THEN HttpException(409, "Users already exist")
    ELSE NoError

\* The error bootstrap_invite raises before it creates anything, or NoError.
BootstrapError(admin_token) ==
    IF ~Truthy(settings.admin_bootstrap_token)
    THEN HttpException(400, "Bootstrap token not configured")
    ELSE IF admin_token # settings.admin_bootstrap_token[1]
    THEN HttpException(403, "Invalid bootstrap token")
    ELSE IF users # <<>>
    THEN HttpException(409, "Users already exist")
    ELSE NoError

\* POST /auth/invite/bootstrap
BootstrapInvite(admin_token, email, role) ==
    LET args == <<admin_token, email, role>>
        error == BootstrapError(admin_token)
    IN
    /\ IF error # NoError
       THEN /\ result' = Raised("bootstrap_invite", args, error)
            /\ UNCHANGED <<invites, fresh>>
       ELSE LET raw_token == <<fresh + 1>>
                invite == NewInvite(Len(invites) + 1, email, role,
                                    raw_token, now)
            IN /\ Len(invites) < MaxInvites
               /\ invites' = Append(invites, invite)
               /\ fresh' = fresh + 1
               /\ result' = Returned("bootstrap_invite", args,
                                     [status_code |-> 201,
                                      invite_token |-> raw_token,
                                      email |-> invite.email,
                                      role |-> invite.role])
    /\ UNCHANGED <<users, sessions, fileVars, settings, flightVars, now>>

\* POST /auth/invite/accept: consume_invite in one request of one worker.
AcceptInvite(token, email, password) ==
    LET args == <<token, email, password>>
        token_hash == HashToken(token)
        normalized_email == NormalizeEmail(email)
        error == ConsumeInviteError(token_hash, normalized_email, now)
    IN
    /\ IF error # NoError
       THEN /\ result' = Raised("accept_invite", args,
                                HttpException(AcceptInviteStatus(error),
                                              error.msg))
            /\ UNCHANGED <<users, invites>>
       ELSE LET i == CHOOSE i \in InviteIdsByToken(token_hash) : TRUE
                user == NewUser(Len(users) + 1, normalized_email, password,
                                invites[i].role, now)
            IN /\ users' = Append(users, user)
               /\ invites' = [invites EXCEPT ![i].used_at = Some(now)]
               /\ result' = Returned("accept_invite", args,
                                     [status_code |-> 201])
    /\ UNCHANGED <<sessions, fileVars, settings, flightVars, now, fresh>>

\* POST /auth/invite/bootstrap in a worker process, up to the return of
\* users_exist: the two token tests and the SELECT, which runs and ends in a
\* transaction of its own.
BootstrapCheck(w, admin_token, email, role) ==
    LET args == <<admin_token, email, role>>
        error == BootstrapError(admin_token)
    IN
    /\ txns[w].pc = "idle"
    /\ IF error # NoError
       THEN /\ result' = Raised("bootstrap_invite", args, error)
            /\ UNCHANGED txns
       ELSE /\ txns' = [txns EXCEPT ![w] = [pc |-> "bootstrap_checked",
                                            args |-> args]]
            /\ result' = Returned("bootstrap_invite_checked", args, None)
    /\ UNCHANGED <<authVars, fileVars, settings, sweep, now, fresh>>

\* The rest of the request: create_invite in a second transaction, and the
\* response.
BootstrapCreate(w) ==
    /\ txns[w].pc = "bootstrap_checked"
    /\ Len(invites) < MaxInvites
    /\ LET raw_token == <<fresh + 1>>
           invite == NewInvite(Len(invites) + 1, txns[w].args[2],
                               txns[w].args[3], raw_token, now)
       IN /\ invites' = Append(invites, invite)
          /\ result' = Returned("bootstrap_invite", txns[w].args,
                                [status_code |-> 201,
                                 invite_token |-> raw_token,
                                 email |-> invite.email,
                                 role |-> invite.role])
    /\ fresh' = fresh + 1
    /\ txns' = [txns EXCEPT ![w] = TxnIdle]
    /\ UNCHANGED <<users, sessions, fileVars, settings, sweep, now>>

----------------------------------------------------------------------------
(* HTTP route of the files router                                          *)

\* The error get_current_user raises for a session cookie, or NoError.
CurrentUserError(session_token) ==
    IF session_token = None
    THEN HttpException(401, "Authentication required")
    ELSE IF ValidSessionIds(HashToken(session_token[1]), now) = {}
    THEN HttpException(401, "Invalid session")
    ELSE NoError

\* The dependency of the upload route, require_auth: the authentication
\* boundary, which answers a cookie that resolves to no user with an
\* authentication-required failure, as get_current_user does.
RequireAuthError(session_token) == CurrentUserError(session_token)

\* POST /files up to the streaming loop: the dependency, which resolves the
\* cookie and, on success, refreshes last_seen_at; then store_upload for the
\* resolved user.  The loop and the row follow in UploadChunk and
\* UploadPersist.
UploadFileEndpoint(session_token, filename, stream) ==
    LET args == <<session_token, filename, stream>>
        error == RequireAuthError(session_token)
    IN
    /\ up.pc = "idle"
    /\ IF error # NoError
       THEN /\ result' = Raised("upload_file_endpoint", args, error)
            /\ UNCHANGED <<sessions, files, dirs, up, fresh>>
       ELSE LET rows == ValidSessionIds(HashToken(session_token[1]), now)
                s == CHOOSE s \in rows : TRUE
            IN /\ rows # {}
               /\ up.started < MaxUploads
               /\ sessions' = SessionsAfterResolve(s, now)
               /\ BeginStreaming(sessions[s].user_id, filename, stream)
               /\ result' = Returned("upload_file_endpoint", args, None)
    /\ UNCHANGED <<users, invites, uploads, settings, flightVars, now>>

----------------------------------------------------------------------------
(* Configuration and initial states                                        *)

DefaultSettings ==
    [storage_dir |-> Cwd \o << <<"storage">> >>,
     chunk_size |-> 1,
     max_size_bytes |-> 1,
     session_secret |-> <<"k">>,
     admin_bootstrap_token |-> None]

InitStore ==
    /\ users = <<>>
    /\ invites = <<>>
    /\ sessions = <<>>
    /\ uploads = {}
    /\ files = <<>>
    /\ dirs = {}
    /\ up = Idle(0)
    /\ now = 0
    /\ fresh = 0
    /\ txns = [w \in Workers |-> TxnIdle]
    /\ sweep = SweepIdle
    /\ result = Returned("start", <<>>, None)

\* The invite workflow: invites are issued and consumed.
InitInvite ==
    /\ InitStore
    /\ settings = DefaultSettings

NextInvite ==
    \/ \E email \in EmailInputs, role \in RoleInputs : CreateInvite(email, role)
    \/ \E token \in TokenInputs, email \in EmailInputs,
          password \in NewPasswordInputs : ConsumeInvite(token, email, password)
    \/ UsersExist
    \/ Tick

SpecInvite == InitInvite /\ [][NextInvite]_vars

\* The login and session workflow, from the state the invite workflow
\* leaves after one invite was issued for "a" and accepted at time 0.
InitSession ==
    /\ invites = << [NewInvite(1, <<"a">>, "member", <<1>>, 0)
                        EXCEPT !.used_at = Some(0)] >>
    /\ users = << NewUser(1, <<"a">>, <<"p">>, "member", 0) >>
    /\ sessions = <<>>
    /\ uploads = {}
    /\ files = <<>>
    /\ dirs = {}
    /\ up = Idle(0)
    /\ now = 0
    /\ fresh = 1
    /\ txns = [w \in Workers |-> TxnIdle]
    /\ sweep = SweepIdle
    /\ result = Returned("start", <<>>, None)
    /\ settings = DefaultSettings

NextSession ==
    \/ \E email \in EmailInputs, password \in PasswordInputs :
          AuthenticateUser(email, password)
    \/ \E user_id \in DOMAIN users : CreateSession(user_id)
    \/ \E raw_token \in TokenInputs : RevokeSession(raw_token)
    \/ \E raw_token \in TokenInputs : ResolveUserFromSession(raw_token)
    \/ \E user_id \in DOMAIN users : DeactivateUser(user_id)
    \/ Tick

SpecSession == InitSession /\ [][NextSession]_vars

\* The upload service and the sweep, under each configuration of the storage
\* directory ("." or "storage", relative to Cwd) and of the chunk size.
\* Files are stored for the user with id 1.
\* The request bodies: every length up to MaxLen, the i-th byte being i, so
\* that a chunk lost, repeated or out of order changes the content.
StreamInputs == {[i \in 1..n |-> i] : n \in 0..MaxLen}
FilenameInputs == { <<" ", "a", "/">> }
UploaderInputs == { None, Some(1) }

InitFiles ==
    /\ InitStore
    /\ settings \in
        [storage_dir : {Cwd, Cwd \o << <<"storage">> >>},
         chunk_size : 1..MaxChunk,
         max_size_bytes : {MaxLimit},
         session_secret : {<<"k">>},
         admin_bootstrap_token : {None}]

NextFiles ==
    \/ \E user_id \in UploaderInputs, filename \in FilenameInputs,
          stream \in StreamInputs : UploadBegin(user_id, filename, stream)
    \/ UploadChunk
    \/ UploadPersist
    \/ \E given \in {None} \cup {Some(t) : t \in 0..MaxTime} :
          DeleteExpiredUploads(given)
    \/ Tick

SpecFiles == InitFiles /\ [][NextFiles]_vars

\* The life of the three kinds of secret token on one store, under the default
\* configuration: an invite is created and consumed, the new user opens,
\* resolves and revokes sessions, uploads files and the sweep removes them.
\* The clock stands still here: no token field is computed from the time.
\* RowsLeft caps the number of token-bearing rows created in one behaviour.
InitTokens ==
    /\ InitStore
    /\ settings = DefaultSettings

RowsLeft == Len(invites) + Len(sessions) + up.started < MaxRows

NextTokens ==
    \/ RowsLeft /\ CreateInvite(<<" ", "A">>, "member")
    \/ \E token \in TokenInputs : ConsumeInvite(token, <<"a">>, <<"p">>)
    \/ RowsLeft /\ \E user_id \in DOMAIN users : CreateSession(user_id)
    \/ \E raw_token \in TokenInputs : RevokeSession(raw_token)
    \/ \E raw_token \in TokenInputs : ResolveUserFromSession(raw_token)
    \/ RowsLeft /\ \E filename \in FilenameInputs :
                      UploadBegin(Some(1), filename, <<1>>)
    \/ UploadChunk
    \/ UploadPersist
    \/ DeleteExpiredUploads(Some(MaxTime))

SpecTokens == InitTokens /\ [][NextTokens]_vars

\* The CSRF helpers under one of two server secrets.  The values a client
\* may send: nothing, the empty string, tokens signed under either secret
\* for either nonce, a signature moved to another nonce, a nonce alone, and
\* strings with a character outside ASCII.
SecretInputs == { <<"k">>, <<"j">> }
NonceInputs == { <<"n">>, <<"m">> }

CsrfStrings ==
    {CsrfToken(nonce, Hmac(secret, nonce)) :
        secret \in SecretInputs, nonce \in NonceInputs}
    \cup {CsrfToken(<<"n">>, Hmac(secret, <<"m">>)) :
            secret \in SecretInputs}
    \cup { <<>>, <<"n">>, <<NonAscii>>,
           CsrfToken(<<"n">>, <<NonAscii>>),
           CsrfToken(<<NonAscii>>, Hmac(<<"k">>, <<NonAscii>>)) }

CsrfInputs == {None} \cup {Some(s) : s \in CsrfStrings}

InitCsrf ==
    /\ InitStore
    /\ settings \in [storage_dir : {DefaultSettings.storage_dir},
                     chunk_size : {DefaultSettings.chunk_size},
                     max_size_bytes : {DefaultSettings.max_size_bytes},
                     session_secret : SecretInputs,
                     admin_bootstrap_token : {None}]

NextCsrf ==
    \/ \E nonce \in NonceInputs : IssueCsrfToken(nonce)
    \/ \E submitted \in CsrfInputs, cookie_value \in CsrfInputs :
            ValidateCsrfToken(submitted, cookie_value)

SpecCsrf == InitCsrf /\ [][NextCsrf]_vars

\* Two workers consume invites concurrently; invites are issued for one
\* email in two spellings, so that two invites can name the same user.
RaceEmailInputs == { <<"a">>, <<" ", "A">> }

InitRace ==
    /\ InitStore
    /\ settings = DefaultSettings

NextRace ==
    \/ \E email \in RaceEmailInputs : CreateInvite(email, "member")
    \/ \E w \in Workers, token \in TokenInputs, email \in RaceEmailInputs :
            ConsumeSelect(w, token, email, <<"p">>)
    \/ \E w \in Workers : ConsumeFlush(w)
    \/ \E w \in Workers : ConsumeCommit(w)
    \/ \E w \in Workers : ConsumeCrash(w)
    \/ Tick

SpecRace == InitRace /\ [][NextRace]_vars

\* Uploads of user 1 and a sweep that runs statement by statement and can be
\* interrupted, with the storage root under or at the working directory.
InitSweep ==
    /\ InitStore
    /\ settings \in
        [storage_dir : {Cwd, Cwd \o << <<"storage">> >>},
         chunk_size : {DefaultSettings.chunk_size},
         max_size_bytes : {DefaultSettings.max_size_bytes},
         session_secret : {DefaultSettings.session_secret},
         admin_bootstrap_token : {None}]

NextSweep ==
    \/ \E filename \in FilenameInputs, stream \in { <<>>, <<1>> } :
            UploadBegin(Some(1), filename, stream)
    \/ UploadChunk
    \/ UploadPersist
    \/ \E given \in {None, Some(MaxTime)} : SweepBegin(given)
    \/ SweepDeleteFile
    \/ SweepCommit
    \/ SweepCrash
    \/ Tick

SpecSweep == InitSweep /\ [][NextSweep]_vars

\* Login and logout of the one seeded user over HTTP.  The login forms a
\* client sends, as <<email, csrf_token, csrf_cookie>>: a well-signed pair
\* with the email of the user and with an unknown email, a form without the
\* cookie, a cookie that differs from the field, and a pair with a character
\* outside ASCII.  The password is the one of the seeded user.
SignedCsrf == CsrfToken(<<"n">>, Hmac(DefaultSettings.session_secret, <<"n">>))

LoginForms ==
    { << <<"a">>, SignedCsrf, Some(SignedCsrf) >>,
      << <<"b">>, SignedCsrf, Some(SignedCsrf) >>,
      << <<"a">>, SignedCsrf, None >>,
      << <<"a">>, SignedCsrf, Some(CsrfToken(<<"n">>, Hmac(<<"j">>, <<"n">>))) >>,
      << <<"a">>, <<NonAscii>>, Some(<<NonAscii>>) >> }

InitLogin == InitSession

NextLogin ==
    \/ \E form \in LoginForms :
            LoginSubmit(form[1], <<"p">>, form[2], form[3])
    \/ \E cookie \in {None} \cup {Some(t) : t \in TokenInputs} :
            Logout(cookie)
    \/ \E raw_token \in TokenInputs : ResolveUserFromSession(raw_token)
    \/ DeleteExpiredUploads(None)
    \/ Tick

SpecLogin == InitLogin /\ [][NextLogin]_vars

\* Bootstrap of the first account over HTTP.  ADMIN_BOOTSTRAP_TOKEN is unset,
\* set to the empty string, or set to "t"; every invite of this specification
\* is issued by bootstrap_invite.
BootstrapTokenSettings == { None, Some(<<>>), Some(<<"t">>) }
AdminTokenInputs == { <<>>, <<"t">>, <<"x">> }

InitBootstrap ==
    /\ InitStore
    /\ settings \in { [DefaultSettings EXCEPT !.admin_bootstrap_token = t] :
                        t \in BootstrapTokenSettings }

NextBootstrap ==
    \/ \E admin_token \in AdminTokenInputs, email \in { <<"a">>, <<"b">> } :
            BootstrapInvite(admin_token, email, "admin")
    \/ \E token \in TokenInputs, email \in { <<"a">>, <<"b">> } :
            AcceptInvite(token, email, <<"p">>)
    \/ Tick

SpecBootstrap == InitBootstrap /\ [][NextBootstrap]_vars

\* Uploads that may fail on the way: while the body is streamed, and when
\* the row is persisted.
NextFaults ==
    \/ \E filename \in FilenameInputs, stream \in StreamInputs :
            UploadBegin(Some(1), filename, stream)
    \/ UploadChunk
    \/ UploadPersist
    \/ UploadStreamError
    \/ UploadPersistError
    \/ Tick

SpecFaults == InitFiles /\ [][NextFaults]_vars

\* Invites, accounts, logins and sessions on one store: every auth service
\* call that can raise, on a store that holds rows of all three tables.
NextAuth ==
    \/ CreateInvite(<<"a">>, "member")
    \/ \E token \in TokenInputs, email \in { <<"a">>, <<"b">> } :
            ConsumeInvite(token, email, <<"p">>)
    \/ \E password \in PasswordInputs : AuthenticateUser(<<"a">>, password)
    \/ \E user_id \in DOMAIN users : CreateSession(user_id)
    \/ \E user_id \in DOMAIN users : DeactivateUser(user_id)
    \/ Tick

SpecAuth == InitInvite /\ [][NextAuth]_vars

\* Uploads over HTTP by the one seeded user: sessions are created, revoked
\* and left to expire, and POST /files arrives with or without a cookie.
\* The cookies a client may hold: the raw token of each session, and one
\* token no session was created with.
SessionTokens == {t \in TokenInputs : SessionIdsByHash(HashToken(t)) # {}}
CookieInputs ==
    {None} \cup {Some(t) : t \in SessionTokens \cup { <<fresh + 1>> }}

NextUpload ==
    \/ \E user_id \in DOMAIN users : CreateSession(user_id)
    \/ \E raw_token \in SessionTokens : RevokeSession(raw_token)
    \/ \E session_token \in CookieInputs, filename \in FilenameInputs :
            UploadFileEndpoint(session_token, filename, <<1>>)
    \/ UploadChunk
    \/ UploadPersist
    \/ Tick

SpecUpload == InitSession /\ [][NextUpload]_vars

\* Logins with good and bad credentials: the email of the seeded user in two
\* spellings and an unknown email, the right and a wrong password, with the
\* CSRF cookie or without it, before and after the account is deactivated.
NextCredentials ==
    \/ \E email \in EmailInputs, password \in PasswordInputs,
          csrf_cookie \in {None, Some(SignedCsrf)} :
            LoginSubmit(email, password, SignedCsrf, csrf_cookie)
    \/ \E user_id \in DOMAIN users : DeactivateUser(user_id)
    \/ Tick

SpecCredentials == InitSession /\ [][NextCredentials]_vars

\* Bootstrap requests served by two worker processes on one database, with
\* accept_invite requests arriving in between.
NextBootRace ==
    \/ \E w \in Workers, admin_token \in AdminTokenInputs,
          email \in { <<"a">>, <<"b">> } :
            BootstrapCheck(w, admin_token, email, "admin")
    \/ \E w \in Workers : BootstrapCreate(w)
    \/ \E token \in TokenInputs, email \in { <<"a">>, <<"b">> } :
            AcceptInvite(token, email, <<"p">>)
    \/ Tick

SpecBootRace == InitBootstrap /\ [][NextBootRace]_vars

\* The CSRF pairs of the login forms, as validate_csrf_token receives them.
LoginCsrfPairs == { <<Some(form[2]), form[3]>> : form \in LoginForms }

\* CSRF pairs validated again and again while time passes and logins that
\* used them succeed and fail.
NextCsrfLogin ==
    \/ \E form \in LoginForms :
            LoginSubmit(form[1], <<"p">>, form[2], form[3])
    \/ \E pair \in LoginCsrfPairs : ValidateCsrfToken(pair[1], pair[2])
    \/ Tick

SpecCsrfLogin == InitLogin /\ [][NextCsrfLogin]_vars

----------------------------------------------------------------------------
(* Claims about consume_invite                                             *)

\* The step just taken was a call of `op`.
Called(op) == result'.op = op

\* About the invite row i and the email of a consume_invite call.
InviteUnused(i) == invites[i].used_at = None
InviteExpired(i) == invites[i].expires_at < now
InviteEmailMatches(i, email) ==
    NormalizeEmail(invites[i].email) = NormalizeEmail(email)
UserKnown(email) ==
    \E u \in DOMAIN users : users[u].email = NormalizeEmail(email)

\* C1, as stated: for every unexpired invite whose email matches, the first
\* consume_invite with its token succeeds and creates exactly one user, and
\* every later consume_invite with that token fails with InviteAlreadyUsed.
C1_AsStated ==
    [][Called("consume_invite") =>
        LET token == result'.args[1]
            email == result'.args[2]
        IN \A i \in InviteIdsByToken(HashToken(token)) :
            /\ (InviteUnused(i) /\ ~InviteExpired(i)
                    /\ InviteEmailMatches(i, email))
                => /\ result'.error = NoError
                   /\ Len(users') = Len(users) + 1
            /\ ~InviteUnused(i)
                => result'.error.kind = "InviteAlreadyUsed"]_vars

\* C1, amended: for every unused, unexpired invite whose email matches,
\* consume_invite with its token succeeds and creates exactly one user when
\* no user has that email yet, and fails with InviteAlreadyUsed, creating
\* none, when one has; every consume_invite with the token of a used invite
\* fails with InviteAlreadyUsed and writes nothing, whatever email and
\* password it is given.
C1_ConsumeOnce ==
    [][Called("consume_invite") =>
        LET token == result'.args[1]
            email == result'.args[2]
            password == result'.args[3]
        IN \A i \in InviteIdsByToken(HashToken(token)) :
            /\ (InviteUnused(i) /\ ~InviteExpired(i)
                    /\ InviteEmailMatches(i, email) /\ ~UserKnown(email))
                => /\ result'.error = NoError
                   /\ Len(users') = Len(users) + 1
                   /\ SubSeq(users', 1, Len(users)) = users
                   /\ users'[Len(users')].email = NormalizeEmail(email)
                   /\ VerifyPassword(password,
                                     users'[Len(users')].password_hash)
                   /\ result'.value = users'[Len(users')]
                   /\ invites'[i].used_at = Some(now)
            /\ (InviteUnused(i) /\ ~InviteExpired(i)
                    /\ InviteEmailMatches(i, email) /\ UserKnown(email))
                => /\ result'.error.kind = "InviteAlreadyUsed"
                   /\ UNCHANGED authVars
            /\ ~InviteUnused(i)
                => /\ result'.error.kind = "InviteAlreadyUsed"
                   /\ UNCHANGED authVars]_vars

\* A later consume_invite on a used invite, called with another email than
\* the invite's, was answered InviteAlreadyUsed.
C1_Witness ==
    /\ result.op = "consume_invite"
    /\ result.error.kind = "InviteAlreadyUsed"
    /\ \E i \in InviteIdsByToken(HashToken(result.args[1])) :
        /\ invites[i].used_at # None
        /\ ~InviteEmailMatches(i, result.args[2])
    /\ Len(users) = 1

\* C8, as stated: consume_invite on an invite whose expires_at is earlier
\* than now fails with InvalidInvite in every state the invite can be in.
C8_AsStated ==
    [][Called("consume_invite") =>
        \A i \in InviteIdsByToken(HashToken(result'.args[1])) :
            InviteExpired(i) => result'.error.kind = "InvalidInvite"]_vars

\* C8, amended: consume_invite on an invite that was not used and whose
\* expires_at is earlier than now fails with InvalidInvite, even when token
\* and email are correct and whether or not a user has that email; on an
\* expired invite that was used it fails with InviteAlreadyUsed.  Either way
\* nothing is written.
C8_ExpiredInvite ==
    [][Called("consume_invite") =>
        \A i \in InviteIdsByToken(HashToken(result'.args[1])) :
            InviteExpired(i) =>
                /\ result'.error.kind =
                       IF InviteUnused(i) THEN "InvalidInvite"
                                          ELSE "InviteAlreadyUsed"
                /\ UNCHANGED authVars]_vars

\* An unused, expired invite was presented with its token and its email and
\* was refused as expired.
C8_Witness ==
    /\ result.op = "consume_invite"
    /\ result.error = Err("InvalidInvite", "Invite expired")
    /\ \E i \in InviteIdsByToken(HashToken(result.args[1])) :
        /\ invites[i].used_at = None
        /\ invites[i].expires_at < now
        /\ InviteEmailMatches(i, result.args[2])

----------------------------------------------------------------------------
(* Claims about stored tokens                                              *)

\* The columns that hold a secret token, and all columns that hold a token.
SecretColumns ==
    {invites[i].token : i \in DOMAIN invites}
        \cup {sessions[s].token_hash : s \in DOMAIN sessions}
        \cup {r.delete_token_hash : r \in uploads}
TokenColumns == SecretColumns \cup {r.download_token : r \in uploads}

\* What the last call returned holds no secret token: it is nothing, a count,
\* a truth value or a User row.
ReturnsNoToken ==
    CASE result.op \in {"start", "revoke_session", "store_upload_begin",
                        "store_upload_chunk", "deactivate_user", "tick"} ->
            result.value = None
      [] result.op = "delete_expired_uploads" -> result.value \in Nat
      [] result.op = "users_exist" -> result.value \in BOOLEAN
      [] result.op \in {"consume_invite", "authenticate_user"} ->
            \E u \in DOMAIN users : result.value = users[u]
      [] result.op = "resolve_user_from_session" ->
            \/ result.value = None
            \/ \E u \in DOMAIN users : result.value = Some(users[u])
      [] OTHER -> FALSE

\* C2: in every reachable state no persisted column holds a raw session,
\* invite or delete token: Session.token_hash, Invite.token and
\* Upload.delete_token_hash each hold the SHA-256 of a raw token and that raw
\* token is in no token column; a raw token is handed to the caller only as
\* the return value of the create_invite, create_session or store_upload that
\* made it, whose row holds its digest.
C2_RawTokensNotPersisted ==
    /\ \A h \in SecretColumns :
        /\ IsDigest(h)
        /\ IsRawToken(Tail(h))
        /\ h = Sha256Hex(Tail(h))
        /\ Tail(h) \notin TokenColumns
    /\ result.error # NoError => result.value = None
    /\ result.error = NoError =>
        CASE result.op = "create_invite" ->
                /\ IsRawToken(result.value.raw_token)
                /\ result.value.invite = invites[Len(invites)]
                /\ result.value.invite.token =
                       Sha256Hex(result.value.raw_token)
          [] result.op = "create_session" ->
                /\ IsRawToken(result.value)
                /\ sessions[Len(sessions)].token_hash =
                       Sha256Hex(result.value)
          [] result.op = "store_upload" ->
                /\ IsRawToken(result.value.delete_token_raw)
                /\ result.value.upload_record \in uploads
                /\ result.value.upload_record.delete_token_hash =
                       Sha256Hex(result.value.delete_token_raw)
          [] OTHER -> ReturnsNoToken

\* An invite, a session and an upload are stored, the upload just made.
C2_Witness ==
    /\ invites # <<>>
    /\ sessions # <<>>
    /\ result.op = "store_upload"
    /\ result.error = NoError
    /\ result.value.upload_record \in uploads

----------------------------------------------------------------------------
(* Claims about sessions and login                                         *)

\* The sessions a raw token is valid for, as the claim words it: the row with
\* the hash of the token exists, is not revoked and expires later than now.
SessionsValidFor(raw_token) ==
    {s \in DOMAIN sessions :
        /\ sessions[s].token_hash = HashToken(raw_token)
        /\ sessions[s].revoked_at = None
        /\ sessions[s].expires_at > now}

\* C3: resolve_user_from_session(t) returns a user if and only if a Session
\* row with hash(t) exists, is not revoked and expires strictly later than
\* now; it then returns the owner of that session and sets last_seen_at to
\* now, changing nothing else.  For any other token it returns no user,
\* raises nothing and changes no row.
C3_ResolveSession ==
    [][Called("resolve_user_from_session") =>
        LET valid == SessionsValidFor(result'.args[1]) IN
        /\ result'.error = NoError
        /\ (result'.value # None) <=> (valid # {})
        /\ \A s \in valid :
            /\ result'.value = Some(users[sessions[s].user_id])
            /\ sessions' = [sessions EXCEPT ![s].last_seen_at = now]
        /\ valid = {} => UNCHANGED sessions
        /\ UNCHANGED <<users, invites>>]_vars

\* A token resolved to its user at a time later than the session's creation,
\* advancing last_seen_at.
C3_Witness ==
    /\ result.op = "resolve_user_from_session"
    /\ result.value # None
    /\ \E s \in DOMAIN sessions :
        /\ sessions[s].token_hash = HashToken(result.args[1])
        /\ sessions[s].last_seen_at = now
        /\ sessions[s].created_at < now
        /\ result.value = Some(users[sessions[s].user_id])

\* The three cases of a failing login, for the arguments of a call.
LoginUnknownEmail(email) == ~UserKnown(email)
LoginInactiveUser(email) ==
    \E u \in DOMAIN users :
        users[u].email = NormalizeEmail(email) /\ ~users[u].is_active
LoginWrongPassword(email, password) ==
    \E u \in DOMAIN users :
        /\ users[u].email = NormalizeEmail(email)
        /\ ~VerifyPassword(password, users[u].password_hash)

\* C9: authenticate_user fails with the same error kind and message,
\* InvalidCredentials 'Invalid credentials', when the email is unknown, when
\* the user is inactive and when the password is wrong: the error does not
\* tell which of the three holds.  It fails in no other case.
C9_UniformLoginError ==
    [][Called("authenticate_user") =>
        LET email == result'.args[1]
            password == result'.args[2]
            refused == \/ LoginUnknownEmail(email)
                       \/ LoginInactiveUser(email)
                       \/ LoginWrongPassword(email, password)
        IN /\ refused =>
                result'.error = Err("InvalidCredentials", "Invalid credentials")
           /\ ~refused => result'.error = NoError]_vars

\* A login with the right password of a deactivated account was refused.
C9_Witness ==
    /\ result.op = "authenticate_user"
    /\ result.error = Err("InvalidCredentials", "Invalid credentials")
    /\ \E u \in DOMAIN users :
        /\ users[u].email = NormalizeEmail(result.args[1])
        /\ ~users[u].is_active
        /\ VerifyPassword(result.args[2], users[u].password_hash)

----------------------------------------------------------------------------
(* Claims about uploads and the expiry sweep                               *)

\* The file store_upload wrote for an Upload row: the storage root joined
\* with the relative path stored in the row.
StoredFile(upload) == settings.storage_dir \o upload.path

TooLargeError == Err("UploadTooLargeError", "Upload exceeds maximum allowed size")

\* C4: a store_upload of a stream longer than max_size_bytes never reaches
\* the point where it writes its row; when it ends, it ends with
\* UploadTooLarge, its destination file is gone and no Upload row was added
\* or refers to that file, for every chunk size and every chunk that crosses
\* the limit.
C4_OversizeRefused ==
    [][(up.pc = "streaming" /\ Len(up.stream) > settings.max_size_bytes) =>
        /\ up'.pc # "persist"
        /\ up'.pc = "idle" =>
            /\ result' = Raised("store_upload", UploadArgs, TooLargeError)
            /\ up.destination_path \notin DOMAIN files'
            /\ uploads' = uploads
            /\ \A r \in uploads' : StoredFile(r) # up.destination_path]_vars

\* A stream one byte over the limit, read in chunks of up to two bytes, was
\* refused after its directory was made, and left no file and no row.
C4_Witness ==
    /\ result.op = "store_upload"
    /\ result.error = TooLargeError
    /\ Len(result.args[3]) = settings.max_size_bytes + 1
    /\ settings.chunk_size = 2
    /\ up.pc = "idle"
    /\ dirs # {}
    /\ files = <<>>
    /\ uploads = {}

\* C5: a store_upload of a stream of size S <= max_size_bytes, S equal to
\* the limit included, is never refused, for every chunking of the input;
\* when it ends it returns a stored Upload row, the file of that row is the
\* destination and holds the whole input in order, size_bytes is S and sha256
\* is the digest of the whole input.
C5_FittingStored ==
    [][(up.pc \in {"streaming", "persist"}
            /\ Len(up.stream) <= settings.max_size_bytes) =>
        /\ up'.pc = "idle" =>
            /\ up.pc = "persist"
            /\ result'.op = "store_upload"
            /\ result'.args = UploadArgs
            /\ result'.error = NoError
            /\ LET r == result'.value.upload_record IN
               /\ r \in uploads'
               /\ StoredFile(r) = up.destination_path
               /\ StoredFile(r) \in DOMAIN files'
               /\ files'[StoredFile(r)] = up.stream
               /\ r.size_bytes = Len(up.stream)
               /\ r.sha256 = Sha256Hex(up.stream)]_vars

\* A stream of exactly max_size_bytes bytes, read one byte at a time, was
\* stored whole.
C5_Witness ==
    /\ result.op = "store_upload"
    /\ result.error = NoError
    /\ settings.chunk_size = 1
    /\ Len(result.args[3]) = settings.max_size_bytes
    /\ result.value.upload_record \in uploads
    /\ result.value.upload_record.size_bytes = settings.max_size_bytes
    /\ StoredFile(result.value.upload_record) \in DOMAIN files

\* The time a delete_expired_uploads call compares with: its argument, or
\* the clock when it has none.
SweepTime(args) == IF args[1] = None THEN now ELSE args[1][1]

\* C6: delete_expired_uploads(now) removes exactly the Upload rows with
\* expires_at <= now and none with expires_at > now, and returns the number
\* of rows it removed; a call that directly follows a call with the same now
\* removes nothing and returns zero.
C6_SweepExact ==
    [][Called("delete_expired_uploads") =>
        LET timestamp == SweepTime(result'.args)
            due == {r \in uploads : r.expires_at <= timestamp}
        IN /\ result'.error = NoError
           /\ uploads' = uploads \ due
           /\ \A r \in uploads' : r.expires_at > timestamp
           /\ result'.value = Cardinality(due)
           /\ (result.op = "delete_expired_uploads"
                  /\ SweepTime(result.args) = timestamp)
               => /\ uploads' = uploads
                  /\ result'.value = 0]_vars

\* A sweep removed a row whose expires_at equals the sweep's time and kept a
\* later one.
C6_Witness ==
    /\ result.op = "delete_expired_uploads"
    /\ result.value = 1
    /\ result.args[1] # None
    /\ uploads # {}
    /\ \A r \in uploads : r.expires_at = SweepTime(result.args) + 1
    /\ \E p \in DOMAIN files : TRUE

\* C7: after delete_expired_uploads returns, the file store_upload wrote for
\* each upload it removed (the storage root joined with the row's relative
\* path) no longer exists.  The filesystem of the model raises no error.
C7_SweepRemovesFile ==
    [][Called("delete_expired_uploads") =>
        \A r \in uploads \ uploads' :
            StoredFile(r) \notin DOMAIN files']_vars

----------------------------------------------------------------------------
(* Claims about CSRF validation                                            *)

\* A value of the form nonce.signature whose signature is the HMAC of the
\* nonce under the server secret.
WellSigned(s) ==
    \E d \in DotAt(s) :
        SubSeq(s, d + 1, Len(s)) = SignNonce(SubSeq(s, 1, d - 1))

\* C10: validate_csrf_token(submitted, cookie) returns true if and only if
\* both values are present and not empty, they are equal, and the value has
\* the form nonce.signature with the signature the HMAC of the nonce under
\* the server secret; in every other case it returns false.
C10_ValidateCsrf ==
    [][Called("validate_csrf_token") =>
        LET submitted == result'.args[1]
            cookie_value == result'.args[2]
            good == /\ submitted # None /\ cookie_value # None
                    /\ submitted # Some(<<>>)
                    /\ submitted = cookie_value
                    /\ WellSigned(submitted[1])
        IN /\ result'.error = NoError
           /\ result'.value <=> good]_vars

----------------------------------------------------------------------------
(* Claims about concurrent and interrupted consume_invite calls            *)

UsedInvites == {i \in DOMAIN invites : invites[i].used_at # None}

\* C11: consume_invite is atomic: in every committed state, each used
\* invite has its user (same email, created at the time the invite was
\* used), each user has the used invite it was created from, and there are
\* as many users as used invites; a failure or the death of the worker at
\* any statement leaves neither the user nor the mark.
C11_ConsumeAtomic ==
    /\ \A i \in UsedInvites :
        \E u \in DOMAIN users :
            /\ users[u].email = invites[i].email
            /\ Some(users[u].created_at) = invites[i].used_at
    /\ \A u \in DOMAIN users :
        \E i \in UsedInvites :
            /\ invites[i].email = users[u].email
            /\ invites[i].used_at = Some(users[u].created_at)
    /\ Cardinality(UsedInvites) = Len(users)

\* A worker died after its INSERT and before its commit, and the store
\* holds neither user nor used invite.
C11_Witness ==
    /\ result.op = "consume_invite"
    /\ result.error = Err("ProcessKilled", "flushed")
    /\ users = <<>>
    /\ invites # <<>>
    /\ UsedInvites = {}

\* C12: when two consume_invite calls for the same email have both passed
\* the existing-user check, the call whose INSERT meets the other's user
\* fails with InviteAlreadyUsed, which accept_invite answers with 409.
C12_RaceLoserMapped ==
    [][\A w \in Workers :
        (/\ txns[w].pc = "checked"
         /\ EmailTaken(txns[w].normalized_email)
         /\ txns'[w].pc = "idle"
         /\ result'.error.kind # "ProcessKilled")
        => /\ result'.error.kind = "InviteAlreadyUsed"
           /\ AcceptInviteStatus(result'.error) = 409]_vars

\* C13: under every interleaving of concurrent consume_invite calls, no two
\* users have the same normalized email, and each invite creates at most one
\* user: a call commits only for an invite that was unused until then, marks
\* it used, and a used invite stays used.
C13_OneUserPerEmail ==
    [][/\ \A u, v \in DOMAIN users' :
            users'[u].email = users'[v].email => u = v
       /\ \A u \in DOMAIN users' : users'[u].email = NormalizeEmail(users'[u].email)
       /\ Len(users') > Len(users) =>
            \E i \in DOMAIN invites :
                /\ invites[i].used_at = None
                /\ invites'[i].used_at # None
                /\ Len(users') = Len(users) + 1
                /\ users'[Len(users')].email = invites[i].email
       /\ \A i \in DOMAIN invites :
            invites[i].used_at # None => invites'[i] = invites[i]]_vars

\* Two calls passed the checks for the same email; one committed its user
\* and the INSERT of the other was refused by the unique index.
C13_Witness ==
    /\ result.op = "consume_invite"
    /\ result.error.kind = "IntegrityError"
    /\ Len(users) = 1
    /\ users[1].email = NormalizeEmail(result.args[2])

----------------------------------------------------------------------------
(* Claims about an interrupted sweep                                       *)

\* C14: when delete_expired_uploads is interrupted before its commit, no
\* Upload row is left whose file the sweep has already deleted: every row
\* the sweep had handled, if it is still stored, still has its file.
C14_NoDanglingRow ==
    [][(sweep.pc = "deleting" /\ sweep'.pc = "idle"
            /\ result'.error.kind = "ProcessKilled")
        => \A r \in uploads' \cap sweep.done :
               StoredFile(r) \in DOMAIN files']_vars

----------------------------------------------------------------------------
(* Claims about logout                                                     *)

\* C15: revoke_session is idempotent: it raises nothing; called with the
\* token of a session that is already revoked it leaves the store as the
\* first call left it; called with a token that matches no session it
\* changes nothing.
C15_RevokeIdempotent ==
    [][Called("revoke_session") =>
        LET found == SessionIdsByHash(HashToken(result'.args[1])) IN
        /\ result'.error = NoError
        /\ found = {} => UNCHANGED <<authVars, fileVars>>
        /\ \A s \in found :
            sessions[s].revoked_at # None => UNCHANGED <<authVars, fileVars>>]_vars

\* C16: once a session has been revoked, no operation clears revoked_at or
\* changes its token hash, and resolve_user_from_session on its raw token
\* returns no user in every later state, whatever follows: new logins of the
\* same user, further logouts, sweeps.
C16_RevokedStaysRevoked ==
    [][\A s \in DOMAIN sessions :
        sessions[s].revoked_at # None =>
            /\ s \in DOMAIN sessions'
            /\ sessions'[s].revoked_at # None
            /\ sessions'[s].token_hash = sessions[s].token_hash
            /\ (Called("resolve_user_from_session")
                    /\ HashToken(result'.args[1]) = sessions[s].token_hash)
                => /\ result'.value = None
                   /\ UNCHANGED authVars]_vars

\* After a logout and a new login of the same user, the old token, not yet
\* expired, resolved to no user.
C16_Witness ==
    /\ result.op = "resolve_user_from_session"
    /\ result.value = None
    /\ \E s, t \in DOMAIN sessions :
        /\ sessions[s].token_hash = HashToken(result.args[1])
        /\ sessions[s].revoked_at # None
        /\ sessions[s].expires_at > now
        /\ sessions[t].user_id = sessions[s].user_id
        /\ sessions[t].revoked_at = None
        /\ Some(sessions[t].created_at) = sessions[s].revoked_at

----------------------------------------------------------------------------
(* Claims about the login request                                          *)

\* The CSRF pair of a login request passes validation: both values are
\* present, equal and well signed.
CsrfPairValid(csrf_token, csrf_cookie) ==
    /\ csrf_token # <<>>
    /\ csrf_cookie = Some(csrf_token)
    /\ WellSigned(csrf_token)

\* C19: a login request whose CSRF pair fails validation is rejected with
\* 400 'Invalid CSRF token' before the credentials are examined: no Session
\* row is created and no User row changes, last_login_at included, even when
\* email and password are correct.
C19_CsrfBeforeCredentials ==
    [][Called("login_submit") =>
        (~CsrfPairValid(result'.args[3], result'.args[4]) =>
            /\ result'.error = HttpException(400, "Invalid CSRF token")
            /\ UNCHANGED <<users, sessions>>)]_vars

----------------------------------------------------------------------------
(* Claims about the bootstrap of the first account                         *)

\* C17: with a bootstrap token configured, bootstrap_invite with a different
\* admin token fails with 403 'Invalid bootstrap token' and creates no
\* invite, whether or not users exist; with no bootstrap token configured it
\* fails with 400 and creates no invite.
C17_BootstrapTokenRequired ==
    [][Called("bootstrap_invite") =>
        /\ (~Truthy(settings.admin_bootstrap_token) =>
                /\ result'.error.kind = "HTTPException"
                /\ result'.error.status_code = 400
                /\ UNCHANGED invites)
        /\ (/\ Truthy(settings.admin_bootstrap_token)
            /\ result'.args[1] # settings.admin_bootstrap_token[1]
            => /\ result'.error =
                    HttpException(403, "Invalid bootstrap token")
               /\ UNCHANGED invites)]_vars

\* A wrong admin token was refused with 403 while a user already existed.
C17_Witness ==
    /\ result.op = "bootstrap_invite"
    /\ result.error.kind = "HTTPException"
    /\ result.error.status_code = 403
    /\ users # <<>>
    /\ Truthy(settings.admin_bootstrap_token)
    /\ result.args[1] # settings.admin_bootstrap_token[1]

\* C18: whenever at least one user exists at the time of the request,
\* bootstrap_invite with the correct admin token fails with 409 and creates
\* no invite, for any email.
C18_BootstrapConflict ==
    [][Called("bootstrap_invite") =>
        (/\ users # <<>>
         /\ Truthy(settings.admin_bootstrap_token)
         /\ result'.args[1] = settings.admin_bootstrap_token[1]
         => /\ result'.error.kind = "HTTPException"
            /\ result'.error.status_code = 409
            /\ UNCHANGED invites)]_vars

\* A second bootstrap with the correct token and an email no user has was
\* refused with 409.
C18_Witness ==
    /\ result.op = "bootstrap_invite"
    /\ result.error.kind = "HTTPException"
    /\ result.error.status_code = 409
    /\ users # <<>>
    /\ Some(result.args[1]) = settings.admin_bootstrap_token
    /\ \A u \in DOMAIN users : users[u].email # NormalizeEmail(result.args[2])

\* C20: admin bootstrap is one-time: over any sequence of bootstrap_invite
\* and accept_invite requests, at most one user account is ever created from
\* invites issued by bootstrap_invite.
C20_BootstrapOneTime == Len(users) <= 1

----------------------------------------------------------------------------
(* Claims about failing and streaming uploads                              *)

\* C21: a store_upload call that fails for any reason (size limit, error
\* while the stream is read, failure while the Upload row is persisted)
\* leaves no partial write: afterwards neither an Upload row nor a stored
\* file of that upload exists.
C21_NoPartialWrite ==
    [][(Called("store_upload") /\ result'.error # NoError) =>
        /\ uploads' = uploads
        /\ up.pc = "idle" => files' = files
        /\ up.pc # "idle" => up.destination_path \notin DOMAIN files']_vars

\* C22: during store_upload the size check precedes every write: the
\* destination never holds more than max_size_bytes bytes, a chunk is written
\* only if the cumulative size with it stays within the limit, and the call
\* ends, its destination unlinked, at the first chunk that passes the limit.
C22_CheckBeforeWrite ==
    [][up.pc = "streaming" =>
        /\ Len(files[up.destination_path]) <= settings.max_size_bytes
        /\ up'.pc = "streaming" =>
            /\ up'.total_bytes <= settings.max_size_bytes
            /\ files'[up.destination_path] =
                    SubSeq(up.stream, 1, up'.total_bytes)
        /\ up'.pc = "persist" => UNCHANGED files
        /\ up'.pc = "idle" =>
            /\ result' = Raised("store_upload", UploadArgs, TooLargeError)
            /\ Len(up.stream) > settings.max_size_bytes
            /\ up.total_bytes + settings.chunk_size > settings.max_size_bytes
            /\ up.destination_path \notin DOMAIN files']_vars

\* The loop filled the destination up to the limit exactly and more input is
\* waiting: the next chunk is the one that passes the limit.
C22_Witness ==
    /\ result.op = "store_upload_chunk"
    /\ up.pc = "streaming"
    /\ Len(files[up.destination_path]) = settings.max_size_bytes
    /\ Len(up.stream) > settings.max_size_bytes

----------------------------------------------------------------------------
(* Claims about failing auth service calls                                 *)

AuthServiceErrors == {"InvalidInvite", "InviteAlreadyUsed", "InvalidCredentials"}

\* C23: every auth service call that ends in an error (consume_invite
\* raising InvalidInvite or InviteAlreadyUsed, authenticate_user raising
\* InvalidCredentials) leaves all User, Invite and Session rows exactly as
\* they were before the call.
C23_FailedCallChangesNothing ==
    [][((Called("consume_invite") \/ Called("authenticate_user"))
            /\ result'.error.kind \in AuthServiceErrors)
        => UNCHANGED authVars]_vars

\* A login with the wrong password of an existing, active account failed
\* and its last_login_at is still unset, on a store that holds a used
\* invite and a session.
C23_Witness ==
    /\ result.op = "authenticate_user"
    /\ result.error.kind = "InvalidCredentials"
    /\ sessions # <<>>
    /\ \E i \in DOMAIN invites : invites[i].used_at # None
    /\ \E u \in DOMAIN users :
        /\ users[u].email = NormalizeEmail(result.args[1])
        /\ users[u].is_active
        /\ ~VerifyPassword(result.args[2], users[u].password_hash)
        /\ users[u].last_login_at = None

----------------------------------------------------------------------------
(* Claims about what the sweep spares                                      *)

\* C24: the sweep never removes the file of an upload that is still valid:
\* in every step of a delete_expired_uploads run, complete or interrupted,
\* every Upload row whose expires_at is later than the timestamp of the run
\* keeps its row and its stored file with its content, uploads of the same
\* owner and month as removed ones included.
C24_ValidFilesKept ==
    [][sweep.pc = "deleting" =>
        \A r \in uploads :
            (r.expires_at > sweep.timestamp /\ StoredFile(r) \in DOMAIN files)
            => /\ r \in uploads'
               /\ StoredFile(r) \in DOMAIN files'
               /\ files'[StoredFile(r)] = files[StoredFile(r)]]_vars

\* The sweep unlinked the file of an expired upload, and a valid upload of
\* the same owner and month still has its file.
C24_Witness ==
    /\ result.op = "delete_expired_uploads_file"
    /\ sweep.pc = "deleting"
    /\ \E r \in sweep.done, v \in uploads :
        /\ StoredFile(r) \notin DOMAIN files
        /\ v.expires_at > sweep.timestamp
        /\ v.owner_id = r.owner_id
        /\ SubSeq(v.path, 1, 2) = SubSeq(r.path, 1, 2)
        /\ StoredFile(v) \in DOMAIN files

----------------------------------------------------------------------------
(* Claims about how validate_csrf_token fails                              *)

\* A CSRF value that is missing, empty, without the '.' separator or not
\* plain ASCII.
CsrfMalformed(value) ==
    \/ value = None
    \/ value = Some(<<>>)
    \/ DotAt(value[1]) = {}
    \/ ~IsAscii(value[1])

\* C25: validate_csrf_token never raises: for every input pair with a value
\* that is missing, empty, lacks the '.' separator or is otherwise malformed
\* (values that are not plain ASCII included) it returns false as a boolean.
C25_CsrfNeverRaises ==
    [][Called("validate_csrf_token") =>
        /\ result'.error = NoError
        /\ (CsrfMalformed(result'.args[1]) \/ CsrfMalformed(result'.args[2]))
            => result'.value = FALSE]_vars

----------------------------------------------------------------------------
(* Claims about the upload route                                           *)

\* C26: the upload endpoint invokes store_upload only for a request whose
\* session cookie resolves to a user: with no cookie, or with a cookie whose
\* session is unknown, revoked or expired, the request is rejected with 401
\* and no file, no directory and no Upload row is created.
C26_UploadNeedsSession ==
    [][Called("upload_file_endpoint") =>
        LET cookie == result'.args[1]
            resolves == cookie # None /\ SessionsValidFor(cookie[1]) # {}
        IN /\ up'.pc = "streaming" => resolves
           /\ ~resolves =>
                /\ result'.error \in
                        {HttpException(401, "Authentication required"),
                         HttpException(401, "Invalid session")}
                /\ UNCHANGED fileVars]_vars

\* An upload request carrying the cookie of a session that was revoked and
\* has not expired was rejected with 401, and nothing was stored.
C26_Witness ==
    /\ result.op = "upload_file_endpoint"
    /\ result.error = HttpException(401, "Invalid session")
    /\ \E s \in DOMAIN sessions :
        /\ sessions[s].token_hash = HashToken(result.args[1][1])
        /\ sessions[s].revoked_at # None
        /\ sessions[s].expires_at > now
    /\ files = <<>>
    /\ uploads = {}

----------------------------------------------------------------------------
(* Claims about the login flow                                             *)

\* The login failed on its credentials: unknown email, inactive user or
\* wrong password.
BadCredentials(email, password) ==
    \/ LoginUnknownEmail(email)
    \/ LoginInactiveUser(email)
    \/ LoginWrongPassword(email, password)

----------------------------------------------------------------------------
(* Claims about the lifetime of a session                                  *)

\* C28: a session's expires_at is fixed at creation, created_at plus the
\* session TTL, and no operation changes it or created_at; a resolve that
\* returns a user found a row whose created_at + TTL is later than now, so a
\* session never resolves at or after created_at + TTL however often it is
\* used.
C28_ExpiryFixed ==
    [][/\ \A s \in DOMAIN sessions :
            /\ s \in DOMAIN sessions'
            /\ sessions'[s].created_at = sessions[s].created_at
            /\ sessions'[s].expires_at = sessions[s].expires_at
       /\ \A s \in DOMAIN sessions' :
            sessions'[s].expires_at = sessions'[s].created_at + SessionTtl
       /\ (Called("resolve_user_from_session") /\ result'.value # None) =>
            \E s \in DOMAIN sessions :
                /\ sessions[s].token_hash = HashToken(result'.args[1])
                /\ now < sessions[s].created_at + SessionTtl]_vars

\* A session that was used after its creation and never revoked resolved to
\* no user at created_at + TTL exactly.
C28_Witness ==
    /\ result.op = "resolve_user_from_session"
    /\ result.value = None
    /\ \E s \in DOMAIN sessions :
        /\ sessions[s].token_hash = HashToken(result.args[1])
        /\ sessions[s].revoked_at = None
        /\ sessions[s].last_seen_at > sessions[s].created_at
        /\ now = sessions[s].created_at + SessionTtl

----------------------------------------------------------------------------
(* Claims about concurrent bootstrap requests                              *)

\* C29: under interleaving of bootstrap_invite and accept_invite requests no
\* bootstrap invite is ever created in a state where a user already exists:
\* the users_exist check and the invite creation of one bootstrap request
\* are not separated by another request's user creation.
C29_NoInviteOnceUsersExist ==
    [][(Called("bootstrap_invite") /\ invites' # invites)
        => users = <<>>]_vars

----------------------------------------------------------------------------
(* Claims about what validate_csrf_token depends on                        *)

=============================================================================
